---- MODULE Spec2Model ----
(***************************************************************************)
(* SimpleTodo: the line-oriented parser of simpletodo.py (parse_file), the *)
(* renderer (print_item, wrap_text) and the command-line driver (main).    *)
(*                                                                         *)
(* Text is modelled as sequences of one-character strings, so that the     *)
(* three regular expressions of `search` are computed character by         *)
(* character.  A Python value that may be None is a sequence of length 0   *)
(* (None) or 1 (the value).                                                *)
(***************************************************************************)
EXTENDS Integers, Sequences, FiniteSets, TLC

\* ---------------------------------------------------------------- bounds
\* longest file given to parse_file when it is run on its own
MaxLines == 5
\* longest file given to main
MainMaxLines == 3
\* terminal width reported by shutil.get_terminal_size()
TermWidth == 12

\* ------------------------------------------------------- Python's None
None == <<>>
Some(v) == <<v>>
Val(o) == o[1]

\* ------------------------------------------------------ character classes
\* \s of the re module
Space == {" ", "\t", "\n"}
\* \w of the re module, restricted to the letters of the modelled files
Word == {"a", "b", "c", "d", "e", "f", "g", "k", "l", "n", "r", "x", "z", "W", "X"}

\* the implicit section: the literal "general"
General == <<"g", "e", "n", "e", "r", "a", "l">>

\* ------------------------------------------------------- the input lines
L_section == <<"W", "k", ":", "\n">>
L_todo_a == <<"[", " ", "]", " ", "a", "\n">>
L_done_a == <<"[", "x", "]", " ", "a", "\n">>
L_done_b == <<"[", "x", "]", " ", "b", "\n">>
L_upper_c == <<"[", "X", "]", " ", "c", "\n">>
L_desc_de == <<" ", "d", "e", "\n">>
L_desc_fg == <<" ", "f", "g", "\n">>
L_blank == <<"\n">>
L_junk == <<"-", "\n">>

Lines ==
  {L_section, L_todo_a, L_done_a, L_done_b, L_upper_c,
   L_desc_de, L_desc_fg, L_blank, L_junk}

\* ------------------------------------------------------ regex primitives
\* first position >= i whose character is outside S (Len+1 when none):
\* where a greedy S* started at i stops
FirstNot(line, i, S) ==
  CHOOSE k \in i..(Len(line) + 1) :
    /\ (k = Len(line) + 1 \/ line[k] \notin S)
    /\ \A m \in i..(k - 1) : line[m] \in S

\* first position >= i holding a newline (Len+1 when none): where a greedy
\* .* started at i stops, '.' matching anything but a newline
FirstNewline(line, i) ==
  CHOOSE k \in i..(Len(line) + 1) :
    /\ (k = Len(line) + 1 \/ line[k] = "\n")
    /\ \A m \in i..(k - 1) : line[m] # "\n"

SetMax(S) == CHOOSE x \in S : \A y \in S : y <= x

\* search['section'] = ^(\w+.*[^\s*])\s*:   -> group(1), or None
search_section(line) ==
  LET J == {j \in 2..Len(line) :
              /\ line[1] \in Word
              /\ \A i \in 1..j : line[i] # "\n"
              /\ line[j] \notin (Space \cup {"*"})
              /\ LET c == FirstNot(line, j + 1, Space)
                 IN  c <= Len(line) /\ line[c] = ":"}
  IN  IF J = {} THEN None ELSE Some(SubSeq(line, 1, SetMax(J)))

\* search['title'] = ^\s*\[\s*(x)*\s*\]\s*(\w+.*)   -> [g1, g2], or None
search_title(line) ==
  LET p1 == FirstNot(line, 1, Space)
      p2 == FirstNot(line, p1 + 1, Space)
      p3 == FirstNot(line, p2, {"x"})
      p4 == FirstNot(line, p3, Space)
      p5 == FirstNot(line, p4 + 1, Space)
  IN  IF ~(p1 <= Len(line) /\ line[p1] = "[") THEN None
      ELSE IF ~(p4 <= Len(line) /\ line[p4] = "]") THEN None
      ELSE IF ~(p5 <= Len(line) /\ line[p5] \in Word) THEN None
      ELSE Some([g1 |-> IF p3 > p2 THEN Some(<<"x">>) ELSE None,
                 g2 |-> SubSeq(line, p5, FirstNewline(line, p5) - 1)])

\* search['description'] = ^\s+(\w+.+)   -> group(1), or None
search_description(line) ==
  LET p == FirstNot(line, 1, Space)
  IN  IF /\ p > 1
         /\ p + 1 <= Len(line)
         /\ line[p] \in Word
         /\ line[p + 1] # "\n"
      THEN Some(SubSeq(line, p, FirstNewline(line, p) - 1))
      ELSE None

\* the dict `search`, lines 10-14, applied to each input line: the three
\* matches are computed once per line
search ==
  [line \in Lines |->
     [section |-> search_section(line),
      title |-> search_title(line),
      description |-> search_description(line)]]

\* ------------------------------------------------------------ the dict
\* items: a dict in insertion order, a sequence of (key, val) entries
Keys(d) == {d[i].key : i \in DOMAIN d}
Get(d, k) == d[CHOOSE i \in DOMAIN d : d[i].key = k].val
\* DictAppend with a slip: the value goes to the front of the list
DictAppend_mut(d, k, v) ==
  [i \in DOMAIN d |->
     IF d[i].key = k THEN [d[i] EXCEPT !.val = <<v>> \o @] ELSE d[i]]

DictAppend(d, k, v) ==
  [i \in DOMAIN d |->
     IF d[i].key = k THEN [d[i] EXCEPT !.val = Append(@, v)] ELSE d[i]]

TodoItem(title, description, status) ==
  [title |-> title, description |-> description, status |-> status]

EmptyTodo ==
  [title |-> None, description |-> None, status |-> None, section |-> None]

\* ------------------------------------------------- state of the program
VARIABLES
  args,             \* main: the parsed command line; None under parse_file alone
  pc,               \* "main", "loop", "done", "exit", "raised"
  data,             \* parse_file: the lines of the file read so far
  nl_count,
  current_section,
  current_todo,
  items,
  exc,              \* the exception that left the program, or "none"
  todo_items,       \* main: None while unassigned
  out               \* main: what was printed

vars ==
  <<args, pc, data, nl_count, current_section, current_todo, items, exc,
    todo_items, out>>

\* the parser's locals as one value
ParserState ==
  [nl_count |-> nl_count, current_section |-> current_section,
   current_todo |-> current_todo, items |-> items, exc |-> exc]

\* ------------------------------------------------------ parse_file body
\* section_branch with a slip: a new section starts a fresh dict
section_branch_mut(st, name) ==
  [st EXCEPT !.nl_count = 0,
             !.current_section = name,
             !.items = IF name \in Keys(@) THEN @
                       ELSE <<[key |-> name, val |-> <<>>]>>]

\* lines 60-64
section_branch(st, name) ==
  [st EXCEPT !.nl_count = 0,
             !.current_section = name,
             !.items = IF name \in Keys(@) THEN @
                       ELSE Append(@, [key |-> name, val |-> <<>>])]

\* lines 69-72
newline_branch(st) ==
  IF st.nl_count + 1 = 2
  THEN [st EXCEPT !.nl_count = 0, !.current_section = General]
  ELSE [st EXCEPT !.nl_count = st.nl_count + 1]

\* append_todo with a slip: the item goes into the current section's list
append_todo_mut(st) ==
  LET t == st.current_todo
      todo == TodoItem(Val(t.title), t.description, Val(t.status))
  IN  [st EXCEPT !.items = DictAppend(@, st.current_section, todo)]

\* lines 78-82 and 105-109: the pending item goes into its section's list
append_todo(st) ==
  LET t == st.current_todo
      todo == TodoItem(Val(t.title), t.description, Val(t.status))
  IN  IF t.section = None \/ Val(t.section) \notin Keys(st.items)
      THEN [st EXCEPT !.exc = "KeyError"]
      ELSE [st EXCEPT !.items = DictAppend(@, Val(t.section), todo)]

\* title_branch with a slip: a repeated title takes the status of its line
title_branch_restatus(st, m) ==
  IF st.current_todo.title # Some(m.g2)
  THEN LET st1 == IF st.current_todo.title # None THEN append_todo(st) ELSE st
       IN  IF st1.exc # "none" THEN st1
           ELSE [st1 EXCEPT !.current_todo =
                   [title |-> Some(m.g2),
                    description |-> None,
                    status |-> Some(m.g1 = Some(<<"x">>)),
                    section |-> Some(st1.current_section)]]
  ELSE [st EXCEPT !.current_todo.status = Some(m.g1 = Some(<<"x">>))]

\* title_branch with a slip: the re-init leaves the description in place
title_branch_mut(st, m) ==
  IF st.current_todo.title # Some(m.g2)
  THEN LET st1 == IF st.current_todo.title # None THEN append_todo(st) ELSE st
       IN  IF st1.exc # "none" THEN st1
           ELSE [st1 EXCEPT !.current_todo =
                   [title |-> Some(m.g2),
                    description |-> st1.current_todo.description,
                    status |-> Some(m.g1 = Some(<<"x">>)),
                    section |-> Some(st1.current_section)]]
  ELSE st

\* lines 74-89
title_branch(st, m) ==
  IF st.current_todo.title # Some(m.g2)
  THEN LET st1 == IF st.current_todo.title # None THEN append_todo(st) ELSE st
       IN  IF st1.exc # "none" THEN st1
           ELSE [st1 EXCEPT !.current_todo =
                   [title |-> Some(m.g2),
                    description |-> None,
                    status |-> Some(m.g1 = Some(<<"x">>)),
                    section |-> Some(st1.current_section)]]
  ELSE st

\* description_branch with a slip: the first line is stored without newline
description_branch_mut(st, description) ==
  [st EXCEPT !.nl_count = 0,
             !.current_todo.description =
                IF @ = None THEN Some(description)
                ELSE Some(Val(@) \o description)]

\* lines 91-97
description_branch(st, description) ==
  [st EXCEPT !.nl_count = 0,
             !.current_todo.description =
                IF @ = None THEN Some(description \o <<"\n">>)
                ELSE Some(Val(@) \o description)]

\* blank_branch with a slip: the TypeError is not caught
blank_branch_mut(st, line) ==
  IF st.current_todo.description = None
  THEN [st EXCEPT !.exc = "TypeError"]
  ELSE [st EXCEPT !.current_todo.description = Some(Val(@) \o line)]

\* lines 99-102: None += str raises TypeError, which is caught
blank_branch(st, line) ==
  IF st.current_todo.description = None
  THEN st
  ELSE [st EXCEPT !.current_todo.description = Some(Val(@) \o line)]

\* loop_body with a slip: a line of no kind resets the count of blank lines
loop_body_mut(st, line) ==
  IF search[line].section # None
    THEN section_branch(st, Val(search[line].section))
  ELSE IF st.current_section # General /\ line = <<"\n">>
    THEN newline_branch(st)
  ELSE IF search[line].title # None
    THEN title_branch(st, Val(search[line].title))
  ELSE IF search[line].description # None
    THEN description_branch(st, Val(search[line].description))
  ELSE IF line = <<"\n">>
    THEN blank_branch(st, line)
  ELSE [st EXCEPT !.nl_count = 0]

\* lines 59-102: one iteration of the loop
loop_body(st, line) ==
  IF search[line].section # None
    THEN section_branch(st, Val(search[line].section))
  ELSE IF st.current_section # General /\ line = <<"\n">>
    THEN newline_branch(st)
  ELSE IF search[line].title # None
    THEN title_branch(st, Val(search[line].title))
  ELSE IF search[line].description # None
    THEN description_branch(st, Val(search[line].description))
  ELSE IF line = <<"\n">>
    THEN blank_branch(st, line)
  ELSE st

\* loop_else with a slip: the last pending item is forgotten
loop_else_mut(st) == st

\* lines 104-109: the else clause of the loop
loop_else(st) ==
  IF st.current_todo.title # None THEN append_todo(st) ELSE st

MaxLen == IF args = None THEN MaxLines ELSE MainMaxLines

SetParser(st, nextpc) ==
  /\ nl_count' = st.nl_count
  /\ current_section' = st.current_section
  /\ current_todo' = st.current_todo
  /\ items' = st.items
  /\ exc' = st.exc
  /\ pc' = IF st.exc # "none" THEN "raised" ELSE nextpc

\* the loop reads the next line of the file
parse_file_line ==
  /\ pc = "loop"
  /\ Len(data) < MaxLen
  /\ \E line \in Lines :
       /\ data' = Append(data, line)
       /\ SetParser(loop_body(ParserState, line), "loop")
  /\ UNCHANGED <<args, todo_items, out>>

\* the file is exhausted: the else clause runs and parse_file returns
parse_file_return ==
  /\ pc = "loop"
  /\ SetParser(loop_else(ParserState), "done")
  /\ UNCHANGED <<args, data, todo_items, out>>

\* lines 43-56
ParserInit ==
  /\ data = <<>>
  /\ nl_count = 0
  /\ current_section = General
  /\ current_todo = EmptyTodo
  /\ items = <<[key |-> General, val |-> <<>>]>>

Init ==
  /\ args = None
  /\ pc = "loop"
  /\ ParserInit
  /\ exc = "none"
  /\ todo_items = None
  /\ out = <<>>

Next == parse_file_line \/ parse_file_return

Spec == Init /\ [][Next]_vars

\* ------------------------------------------------- todo.py: parse_file
\* title_re = ^.*\[(.*)\]\s*(\w+.*)   -> [g1, g2], or None.  The greedy .*
\* before the bracket takes the last "[" that lets the rest match, the
\* greedy group the last "]" after it
title_re(line) ==
  LET ok(i, j) ==
        /\ line[i] = "["
        /\ line[j] = "]"
        /\ \A m \in 1..j : line[m] # "\n"
        /\ LET p == FirstNot(line, j + 1, Space)
           IN  p <= Len(line) /\ line[p] \in Word
      I == {i \in 1..Len(line) : \E j \in (i + 1)..Len(line) : ok(i, j)}
  IN  IF I = {} THEN None
      ELSE LET i == SetMax(I)
               j == SetMax({k \in (i + 1)..Len(line) : ok(i, k)})
               p == FirstNot(line, j + 1, Space)
           IN  Some([g1 |-> SubSeq(line, i + 1, j - 1),
                     g2 |-> SubSeq(line, p, FirstNewline(line, p) - 1)])

\* section_re, title_re and desc_re of todo.py (lines 11-13) applied to each
\* input line; section_re and desc_re are the patterns of simpletodo.py
todo_re ==
  [line \in Lines |->
     [section |-> search_section(line),
      title |-> title_re(line),
      desc |-> search_description(line)]]

\* the locals of todo.py's parse_file as one value
TodoParserState ==
  [nl_count |-> nl_count, current_section |-> current_section,
   items |-> items, exc |-> exc]

\* todo.py lines 84-88
todo_section_branch(st, name) ==
  [st EXCEPT !.nl_count = 0,
             !.current_section = name,
             !.items = IF name \in Keys(@) THEN @
                       ELSE Append(@, [key |-> name, val |-> <<>>])]

\* todo.py lines 89-93: no continue, the line goes on to the second if
todo_newline_branch(st, line) ==
  IF st.current_section # General /\ line = <<"\n">>
  THEN IF st.nl_count + 1 = 2
       THEN [st EXCEPT !.nl_count = 0, !.current_section = General]
       ELSE [st EXCEPT !.nl_count = st.nl_count + 1]
  ELSE st

\* items[current_section][-1].append(line); IndexError on an empty list
todo_append_to_last(st, line) ==
  IF Get(st.items, st.current_section) = <<>>
  THEN [st EXCEPT !.exc = "IndexError"]
  ELSE [st EXCEPT !.items =
          [i \in DOMAIN @ |->
             IF @[i].key = st.current_section
             THEN [@[i] EXCEPT !.val[Len(@[i].val)] = Append(@, line)]
             ELSE @[i]]]

\* todo.py lines 94-105
todo_item_branch(st, line) ==
  IF todo_re[line].title # None
    THEN [st EXCEPT !.items = DictAppend(@, st.current_section, <<line>>)]
  ELSE IF todo_re[line].desc # None
    THEN todo_append_to_last([st EXCEPT !.nl_count = 0], line)
  ELSE IF line = <<"\n">>
    THEN LET r == todo_append_to_last(st, line)
         IN  IF r.exc = "IndexError" THEN st ELSE r
  ELSE st

\* todo.py lines 82-105: one iteration of the loop
todo_loop_body(st, line) ==
  IF todo_re[line].section # None
  THEN todo_section_branch(st, Val(todo_re[line].section))
  ELSE todo_item_branch(todo_newline_branch(st, line), line)

SetTodoParser(st, nextpc) ==
  /\ nl_count' = st.nl_count
  /\ current_section' = st.current_section
  /\ items' = st.items
  /\ exc' = st.exc
  /\ pc' = IF st.exc # "none" THEN "raised" ELSE nextpc

\* the loop of todo.py reads the next line of the file
todo_parse_file_line ==
  /\ pc = "todo_loop"
  /\ Len(data) < MaxLen
  /\ \E line \in Lines :
       /\ data' = Append(data, line)
       /\ SetTodoParser(todo_loop_body(TodoParserState, line), "todo_loop")
  /\ UNCHANGED <<args, current_todo, todo_items, out>>

\* todo.py line 106
todo_parse_file_return ==
  /\ pc = "todo_loop"
  /\ pc' = "todo_done"
  /\ UNCHANGED <<args, data, nl_count, current_section, current_todo, items,
                 exc, todo_items, out>>

\* todo.py lines 77-81
TodoInit ==
  /\ args = None
  /\ pc = "todo_loop"
  /\ ParserInit
  /\ exc = "none"
  /\ todo_items = None
  /\ out = <<>>

TodoNext == todo_parse_file_line \/ todo_parse_file_return

TodoSpec == TodoInit /\ [][TodoNext]_vars

\* -------------------------------------------------------------- str methods
\* every character of the modelled text
Alphabet == Word \cup Space \cup {"[", "]", ":", "-", "*"}

\* str.strip()
Strip(s) ==
  LET a == FirstNot(s, 1, Space)
  IN  IF a > Len(s) THEN <<>>
      ELSE SubSeq(s, a, CHOOSE k \in a..Len(s) :
                          /\ s[k] \notin Space
                          /\ \A m \in (k + 1)..Len(s) : s[m] \in Space)

\* str.split('\n')
RECURSIVE Split(_)
Split(s) ==
  LET k == FirstNewline(s, 1)
  IN  IF k > Len(s) THEN <<s>>
      ELSE <<SubSeq(s, 1, k - 1)>> \o Split(SubSeq(s, k + 1, Len(s)))

RECURSIVE Concat(_)
Concat(ss) == IF ss = <<>> THEN <<>> ELSE Head(ss) \o Concat(Tail(ss))

\* ------------------------------------------------------- textwrap.wrap
\* TextWrapper._munge_whitespace: every whitespace character becomes a space
munge_whitespace(text) ==
  [i \in DOMAIN text |-> IF text[i] \in Space THEN " " ELSE text[i]]

\* TextWrapper._split: maximal runs of whitespace and of non-whitespace
\* (the modelled descriptions hold no hyphen, the other place it splits at)
RECURSIVE split_chunks(_)
split_chunks(text) ==
  IF text = <<>> THEN <<>>
  ELSE LET k == IF text[1] \in Space THEN FirstNot(text, 1, Space)
                ELSE FirstNot(text, 1, Alphabet \ Space)
       IN  <<SubSeq(text, 1, k - 1)>>
             \o split_chunks(SubSeq(text, k, Len(text)))

\* chunk.strip() == ''
IsBlankChunk(c) == \A i \in DOMAIN c : c[i] \in Space

\* TextWrapper._wrap_chunks for width > 0, one line of output per round.
\* A whitespace chunk at the start of a line is dropped, except on the
\* first line
drop_leading(chunks, lines) ==
  IF IsBlankChunk(Head(chunks)) /\ lines # <<>> THEN Tail(chunks) ELSE chunks

\* greedy filling: how many chunks fit into the width
fill_count(chunks, width) ==
  SetMax({m \in 0..Len(chunks) : Len(Concat(SubSeq(chunks, 1, m))) <= width})

\* _handle_long_word: a chunk longer than the width is broken, its start
\* fills what is left of the line
break_long(cur, rest, width) ==
  IF rest # <<>> /\ Len(Head(rest)) > width
  THEN [cur |-> Append(cur, SubSeq(Head(rest), 1, width - Len(Concat(cur)))),
        rest |-> <<SubSeq(Head(rest), width - Len(Concat(cur)) + 1,
                          Len(Head(rest)))>> \o Tail(rest)]
  ELSE [cur |-> cur, rest |-> rest]

\* a whitespace chunk at the end of a line is dropped
drop_trailing(cur) ==
  IF cur # <<>> /\ IsBlankChunk(cur[Len(cur)])
  THEN SubSeq(cur, 1, Len(cur) - 1) ELSE cur

\* the line joins lines unless it is empty
emit_line(lines, cur) ==
  IF cur # <<>> THEN Append(lines, Concat(cur)) ELSE lines

RECURSIVE wrap_chunks(_, _, _)
wrap_line(chunks, n, width, lines) ==
  LET b == break_long(SubSeq(chunks, 1, n), SubSeq(chunks, n + 1, Len(chunks)),
                      width)
  IN  wrap_chunks(b.rest, width, emit_line(lines, drop_trailing(b.cur)))

wrap_rest(chunks, width, lines) ==
  IF chunks = <<>> THEN lines
  ELSE wrap_line(chunks, fill_count(chunks, width), width, lines)

wrap_chunks(chunks, width, lines) ==
  IF chunks = <<>> THEN lines
  ELSE wrap_rest(drop_leading(chunks, lines), width, lines)

\* wrap_text, lines 17-18; the width must be positive (ValueError otherwise)
wrap_text(string, indentation) ==
  wrap_chunks(split_chunks(munge_whitespace(string)),
              TermWidth - indentation * 2, <<>>)

\* ------------------------------------------------------------ print_item
\* one call of print(): a title line, a description line or an empty line
Printed(kind, indent, text, strike) ==
  [kind |-> kind, indent |-> indent, text |-> text, strike |-> strike]

BlankLine == Printed("blank", 0, <<>>, FALSE)

\* lines 132-138: the loop over the lines of the stripped description
RECURSIVE print_description_lines(_, _, _)
print_description_lines(unwrapped, indentation, done) ==
  IF unwrapped = <<>> THEN [out |-> <<>>, exc |-> "none"]
  ELSE LET u == Head(unwrapped)
           blank == IF u = <<>> THEN <<BlankLine>> ELSE <<>>
           wrapped == wrap_text(u, indentation)
           rest == print_description_lines(Tail(unwrapped), indentation, done)
       IN  IF TermWidth - indentation * 2 <= 0
           THEN [out |-> blank, exc |-> "ValueError"]
           ELSE [out |-> blank
                          \o [i \in DOMAIN wrapped |->
                                Printed("text", indentation + 1, wrapped[i], done)]
                          \o rest.out,
                 exc |-> rest.exc]

\* lines 114-139
print_item(item, indentation, print_description) ==
  LET done == item.status
      head == <<Printed("title", indentation, item.title, done)>>
      description == item.description
      body == IF description # None /\ Val(description) # <<>>
              THEN print_description_lines(Split(Strip(Val(description))),
                                           indentation, done)
              ELSE [out |-> <<>>, exc |-> "none"]
  IN  IF ~print_description THEN [out |-> head, exc |-> "none"]
      ELSE IF body.exc # "none" THEN [out |-> head \o body.out, exc |-> body.exc]
      ELSE [out |-> head \o body.out \o <<BlankLine>>, exc |-> "none"]

\* ------------------------------------------------------------------ main
\* the default of the positional argument: 'all'
All == <<"a", "l", "l">>

Sections == {All, General, <<"W", "k">>, <<"z", "z">>}
IndentChoices == {None, Some(0), Some(2)}

Args ==
  [section : Sections, edit : BOOLEAN, no_description : BOOLEAN,
   no_section : BOOLEAN, indent_spaces : IndentChoices]

\* d.keys(), in insertion order
KeyList(d) == [i \in DOMAIN d |-> d[i].key]

\* effective_indent with a slip: suppressed headers do not count
effective_indent_mut(indent_spaces, nsections, no_section) ==
  IF indent_spaces = None /\ nsections = 1 THEN 1
  ELSE IF indent_spaces = None THEN 4
  ELSE Val(indent_spaces)

\* lines 185-188
effective_indent(indent_spaces, nsections, no_section) ==
  IF (indent_spaces = None /\ nsections = 1) \/ no_section THEN 1
  ELSE IF indent_spaces = None THEN 4
  ELSE Val(indent_spaces)

\* lines 194-199
RECURSIVE print_items(_, _, _)
print_items(list, indent, a) ==
  IF list = <<>> THEN [out |-> <<>>, exc |-> "none"]
  ELSE LET r == print_item(Head(list), indent, ~a.no_description)
           rest == print_items(Tail(list), indent, a)
       IN  IF r.exc # "none" THEN r
           ELSE [out |-> r.out \o rest.out, exc |-> rest.exc]

\* lines 190-199
RECURSIVE print_sections(_, _, _, _, _)
print_sections(secs, nsections, indent, a, model) ==
  IF secs = <<>> THEN [out |-> <<>>, exc |-> "none"]
  ELSE LET section == Head(secs)
           list == Get(model, section)
           header == IF ~a.no_section /\ nsections > 1
                     THEN <<Printed("section", 0, section, FALSE)>> ELSE <<>>
           r == print_items(list, indent, a)
           rest == print_sections(Tail(secs), nsections, indent, a, model)
       IN  IF Len(list) > 0
           THEN IF r.exc # "none" THEN [out |-> header \o r.out, exc |-> r.exc]
                ELSE [out |-> header \o r.out \o rest.out, exc |-> rest.exc]
           ELSE rest

\* display with a slip: after the message, every section is shown
display_mut(a, ti) ==
  IF ti = None THEN [out |-> <<>>, exc |-> "UnboundLocalError"]
  ELSE LET found == a.section = All \/ a.section \in Keys(Val(ti))
           message == IF found THEN <<>>
                      ELSE <<Printed("Section not found", 0, <<>>, FALSE)>>
           sections == IF a.section = All \/ ~found THEN KeyList(Val(ti))
                       ELSE <<a.section>>
           indent == effective_indent(a.indent_spaces, Len(sections), a.no_section)
           r == print_sections(sections, Len(sections), indent, a, Val(ti))
       IN  [out |-> message \o r.out, exc |-> r.exc]

\* lines 177-199; ti is the local todo_items, None while it is unassigned
display(a, ti) ==
  IF ti = None THEN [out |-> <<>>, exc |-> "UnboundLocalError"]
  ELSE IF a.section # All /\ a.section \notin Keys(Val(ti))
  THEN [out |-> <<Printed("Section not found", 0, <<>>, FALSE)>>, exc |-> "none"]
  ELSE LET sections == IF a.section = All THEN KeyList(Val(ti))
                       ELSE <<a.section>>
           indent == effective_indent(a.indent_spaces, Len(sections), a.no_section)
       IN  print_sections(sections, Len(sections), indent, a, Val(ti))

SetDisplay(r) ==
  /\ out' = out \o r.out
  /\ exc' = r.exc
  /\ pc' = IF r.exc # "none" THEN "raised" ELSE "exit"

\* lines 166-168: -e runs the editor and returns
main_edit ==
  /\ pc = "main"
  /\ Val(args).edit
  /\ out' = Append(out, Printed("run editor", 0, <<>>, FALSE))
  /\ pc' = "exit"
  /\ UNCHANGED <<args, data, nl_count, current_section, current_todo, items,
                 exc, todo_items>>

\* line 170: the file exists, parse_file is entered
main_parse_file ==
  /\ pc = "main"
  /\ ~Val(args).edit
  /\ pc' = "loop"
  /\ UNCHANGED <<args, data, nl_count, current_section, current_todo, items,
                 exc, todo_items, out>>

\* lines 171-175, then 177 onwards when the answer is not yes
main_file_not_found ==
  /\ pc = "main"
  /\ ~Val(args).edit
  /\ \E answer \in {"y", "n"} :
       LET prompt == Printed("File not found. Edit it? (y/N)", 0, <<>>, FALSE)
           r == display(Val(args), todo_items)
       IN  IF answer = "y"
           THEN /\ out' = <<prompt, Printed("run editor", 0, <<>>, FALSE)>>
                /\ pc' = "exit"
                /\ exc' = exc
           ELSE /\ out' = <<prompt>> \o r.out
                /\ exc' = r.exc
                /\ pc' = IF r.exc # "none" THEN "raised" ELSE "exit"
  /\ UNCHANGED <<args, data, nl_count, current_section, current_todo, items,
                 todo_items>>

\* line 170 returns, lines 177-199 run
main_display ==
  /\ pc = "done"
  /\ args # None
  /\ todo_items' = Some(items)
  /\ SetDisplay(display(Val(args), Some(items)))
  /\ UNCHANGED <<args, data, nl_count, current_section, current_todo, items>>

MainInit ==
  /\ args \in {Some(a) : a \in Args}
  /\ pc = "main"
  /\ ParserInit
  /\ exc = "none"
  /\ todo_items = None
  /\ out = <<>>

MainNext ==
  \/ main_edit
  \/ main_parse_file
  \/ main_file_not_found
  \/ parse_file_line
  \/ parse_file_return
  \/ main_display

MainSpec == MainInit /\ [][MainNext]_vars

\* =========================================================== properties
\* ------------------------------------------- vocabulary of the properties
IsBlank(line) == line = <<"\n">>
IsHeader(line) == search[line].section # None
IsTitleLine(line) == ~IsHeader(line) /\ search[line].title # None
IsDescLine(line) ==
  /\ ~IsHeader(line)
  /\ search[line].title = None
  /\ search[line].description # None
HeaderName(line) == Val(search[line].section)
TitleText(line) == Val(search[line].title).g2
TitleDone(line) == Val(search[line].title).g1 # None
DescText(line) == Val(search[line].description)

\* the loop has just read one more line
ReadsLine == pc = "loop" /\ Len(data') = Len(data) + 1
LineRead == data'[Len(data')]

\* all lists of the model together hold this many items
RECURSIVE CountItems(_)
CountItems(d) == IF d = <<>> THEN 0 ELSE Len(Head(d).val) + CountItems(Tail(d))

\* the list of section k, empty when k is not a key yet
ListOf(d, k) == IF k \in Keys(d) THEN Get(d, k) ELSE <<>>

\* the pending item as the TodoItem it is finalized into
PendingItem ==
  TodoItem(Val(current_todo.title), current_todo.description,
           Val(current_todo.status))

\* positions of data whose title line began a new pending item: a title line
\* whose title differs from the title line before it, if any
TitleIdx(d) == {i \in DOMAIN d : IsTitleLine(d[i])}
Creating(d) ==
  {i \in TitleIdx(d) :
     LET before == {j \in TitleIdx(d) : j < i}
     IN  before = {} \/ TitleText(d[SetMax(before)]) # TitleText(d[i])}
\* the position of the title line that began the pending item (0: none)
LastCreating(d) == IF Creating(d) = {} THEN 0 ELSE SetMax(Creating(d))

\* C1: while the current section is a named one, a line read makes the
\* current section "general" exactly when it is a blank line that directly
\* follows another blank line (section headers set aside).
C1_RevertIffConsecutiveBlanks ==
  [][(ReadsLine /\ current_section # General /\ ~IsHeader(LineRead))
       => ((current_section' = General)
             <=> (/\ IsBlank(LineRead)
                  /\ Len(data) >= 1
                  /\ IsBlank(data[Len(data)])))]_vars

\* C2: a pending item is begun with the section current at its title line; a
\* section header or a blank line counted in a named section (the reset to
\* "general" included) leaves the pending item and every list alone; and
\* finalization appends the pending item to the list of its recorded
\* section and to no other list.
C2_FiledUnderSectionAtTitle ==
  [][(pc = "loop" /\ pc' # "raised")
       => /\ (ReadsLine /\ current_todo'.title # current_todo.title)
               => current_todo'.section = Some(current_section)
          /\ (ReadsLine /\ (IsHeader(LineRead)
                             \/ (IsBlank(LineRead) /\ current_section # General)))
               => /\ current_todo' = current_todo
                  /\ \A k \in Keys(items') : ListOf(items', k) = ListOf(items, k)
          /\ (CountItems(items') # CountItems(items))
               => /\ CountItems(items') = CountItems(items) + 1
                  /\ \A k \in Keys(items') :
                       ListOf(items', k) =
                         IF Some(k) = current_todo.section
                         THEN Append(ListOf(items, k), PendingItem)
                         ELSE ListOf(items, k)]_vars

\* C2 witness: an item filed under the section recorded at its title line
\* although the current section has changed since.
C2_Witness ==
  /\ pc = "done"
  /\ current_todo.section # None
  /\ Val(current_todo.section) # current_section
  /\ Len(Get(items, Val(current_todo.section))) > 0
  /\ Get(items, current_section) = <<>>

\* the checkbox marker of a title line as the file format writes it:
\* "[ ]", "[x]" or "[X]", then whitespace, then a title starting with a word
\* character; None for any other line
MarkerOf(line) ==
  IF /\ Len(line) >= 5
     /\ line[1] = "["
     /\ line[2] \in {" ", "x", "X"}
     /\ line[3] = "]"
     /\ FirstNot(line, 4, Space) > 4
     /\ FirstNot(line, 4, Space) <= Len(line)
     /\ line[FirstNot(line, 4, Space)] \in Word
  THEN Some(line[2]) ELSE None
MarkedTitle(line) ==
  SubSeq(line, FirstNot(line, 4, Space), FirstNewline(line, 4) - 1)

\* C3: a title line whose title differs from the pending one begins an item
\* whose status is true exactly when its marker holds x or X.
C3_StatusIffMarkerHasX ==
  [][(ReadsLine /\ MarkerOf(LineRead) # None
        /\ current_todo.title # Some(MarkedTitle(LineRead)))
       => /\ current_todo'.title = Some(MarkedTitle(LineRead))
          /\ current_todo'.status = Some(Val(MarkerOf(LineRead)) \in {"x", "X"})]_vars

\* C4: whatever lines are read, in whatever order, no exception leaves
\* parse_file: it is reading lines or it has returned.
C4_NeverRaises == exc = "none" /\ pc \in {"loop", "done"}

\* C4 witness: parse_file returned after a file that starts with a
\* description line followed by a blank line, before any title line.
C4_Witness ==
  /\ pc = "done"
  /\ Len(data) >= 3
  /\ IsDescLine(data[1])
  /\ IsBlank(data[2])
  /\ IsTitleLine(data[3])

\* C5: as long as no description line was read since the title line that
\* began the pending item, its description is None (blank lines and
\* description lines from before that title line do not count), and
\* finalization files the item with the pending description.
C5_PendingInv ==
  (current_todo.title # None
     /\ \A i \in (LastCreating(data) + 1)..Len(data) : ~IsDescLine(data[i]))
    => current_todo.description = None
C5_AbsentDescription ==
  /\ []C5_PendingInv
  /\ [][(pc = "loop" /\ CountItems(items') = CountItems(items) + 1)
          => LET list == Get(items', Val(current_todo.section))
             IN  list[Len(list)].description = current_todo.description]_vars

\* C5 witness: an item filed without description although a description
\* line came right before its title line and a blank line right after it.
C5_Witness ==
  /\ pc = "done"
  /\ LastCreating(data) > 1
  /\ IsDescLine(data[LastCreating(data) - 1])
  /\ LastCreating(data) < Len(data)
  /\ IsBlank(data[LastCreating(data) + 1])
  /\ LET list == Get(items, Val(current_todo.section))
     IN  list # <<>> /\ list[Len(list)].description = None

\* the position of the first section header of d (Len+1: none)
FirstHeader(d) ==
  IF \E i \in DOMAIN d : IsHeader(d[i])
  THEN CHOOSE i \in DOMAIN d :
         IsHeader(d[i]) /\ \A j \in 1..(i - 1) : ~IsHeader(d[j])
  ELSE Len(d) + 1
\* the title lines that began an item before any section header, in order
RECURSIVE TitlesBeforeHeader(_, _)
TitlesBeforeHeader(d, i) ==
  IF i >= FirstHeader(d) THEN <<>>
  ELSE (IF i \in Creating(d) THEN <<TitleText(d[i])>> ELSE <<>>)
         \o TitlesBeforeHeader(d, i + 1)

\* C6: "general" is always a key of the model; an item begun before any
\* section header records "general"; and in the returned model the list of
\* "general" starts with the items of the title lines read before the first
\* section header, in order.
C6_GeneralAlwaysExists ==
  /\ General \in Keys(items)
  /\ (FirstHeader(data) > Len(data) /\ current_todo.title # None)
       => current_todo.section = Some(General)
  /\ pc = "done"
       => LET t == TitlesBeforeHeader(data, 1)
              g == Get(items, General)
          IN  /\ Len(g) >= Len(t)
              /\ \A j \in DOMAIN t : g[j].title = t[j]

\* C6 witness: a model returned with an empty "general" list, and one
\* returned with an item begun before the first section header.
C6_Witness ==
  /\ pc = "done"
  /\ FirstHeader(data) <= Len(data)
  /\ TitlesBeforeHeader(data, 1) # <<>>
  /\ Keys(items) # {General}

\* the file of the example: header, incomplete title, description line,
\* blank line, complete title with another text
IsExampleFile(d) ==
  /\ Len(d) = 5
  /\ IsHeader(d[1]) /\ HeaderName(d[1]) # General
  /\ IsTitleLine(d[2]) /\ ~TitleDone(d[2])
  /\ IsDescLine(d[3])
  /\ IsBlank(d[4])
  /\ IsTitleLine(d[5]) /\ TitleDone(d[5])
  /\ TitleText(d[5]) # TitleText(d[2])

\* C7: the example file yields two items in its section, the first with
\* status false and the description line plus one newline, the second with
\* status true and no description, and nothing in "general".
C7_Example ==
  (pc = "done" /\ IsExampleFile(data))
    => /\ Keys(items) = {General, HeaderName(data[1])}
       /\ Get(items, General) = <<>>
       /\ Get(items, HeaderName(data[1])) =
            <<[title |-> TitleText(data[2]),
               description |-> Some(DescText(data[3]) \o <<"\n">>),
               status |-> FALSE],
              [title |-> TitleText(data[5]),
               description |-> None,
               status |-> TRUE]>>

\* C7 witness: parse_file returned from the example file.
C7_Witness == pc = "done" /\ IsExampleFile(data) /\ CountItems(items) = 2

\* main has ended after parsing the file
Displayed == pc \in {"exit", "raised"} /\ todo_items # None
IsRendering(e) == e.kind \in {"section", "title", "text", "blank"}

\* C8: a requested section that is neither 'all' nor a key of the model
\* gives the message "Section not found" and nothing else: no header, no
\* item.
C8_UnknownSection ==
  (Displayed /\ Val(args).section # All
     /\ Val(args).section \notin Keys(Val(todo_items)))
    => /\ exc = "none"
       /\ Len(out) = 1
       /\ out[1].kind = "Section not found"
       /\ \A i \in DOMAIN out : ~IsRendering(out[i])

\* C8 witness: an unknown section was requested of a model that has items.
C8_Witness ==
  /\ Displayed
  /\ Val(args).section \notin (Keys(Val(todo_items)) \cup {All})
  /\ CountItems(Val(todo_items)) > 0
  /\ out # <<>>

\* the lines after the title line that began the last item
Body(d) == SubSeq(d, LastCreating(d) + 1, Len(d))
\* b is a description of at least two paragraphs: description lines and
\* blank lines only, a description line first and last, some blank line
IsParagraphs(b) ==
  /\ Len(b) >= 3
  /\ IsDescLine(b[1])
  /\ IsDescLine(b[Len(b)])
  /\ \A i \in DOMAIN b : IsDescLine(b[i]) \/ IsBlank(b[i])
  /\ \E i \in DOMAIN b : IsBlank(b[i])
\* the paragraph of line i: one more than the runs of blank lines before it
ParOf(b, i) ==
  1 + Cardinality({j \in 1..(i - 1) : IsBlank(b[j]) /\ ~IsBlank(b[j + 1])})
Chars(t) == {t[i] : i \in DOMAIN t}
\* lines of different paragraphs share no character, so that a rendered
\* text tells its paragraph
ParagraphsDiffer(b) ==
  \A i, j \in DOMAIN b :
    (IsDescLine(b[i]) /\ IsDescLine(b[j]) /\ ParOf(b, i) # ParOf(b, j))
      => Chars(DescText(b[i])) \cap Chars(DescText(b[j])) = {}
\* the paragraphs that have text in the rendered text t
ParsIn(b, t) ==
  {ParOf(b, i) : i \in {i \in DOMAIN b :
       IsDescLine(b[i]) /\ Chars(DescText(b[i])) \cap Chars(t) # {}}}
\* the printed lines r keep the paragraphs of b apart
KeepsParagraphs(b, r) ==
  /\ \A i \in DOMAIN r :
       r[i].kind = "text" => Cardinality(ParsIn(b, r[i].text)) <= 1
  /\ \A p \in 1..(ParOf(b, Len(b)) - 1) :
       \E k \in DOMAIN r :
         /\ r[k].kind = "blank"
         /\ \E i \in 1..(k - 1) : r[i].kind = "text" /\ p \in ParsIn(b, r[i].text)
         /\ \E i \in (k + 1)..Len(r) :
              r[i].kind = "text" /\ (p + 1) \in ParsIn(b, r[i].text)
         /\ \A i \in DOMAIN r :
              r[i].kind = "text"
                => /\ i < k => ParsIn(b, r[i].text) \subseteq 1..p
                   /\ i > k => ParsIn(b, r[i].text) \subseteq (p + 1)..Len(b)

\* C9: the last item of a file, its description written as two or more
\* paragraphs, is printed with a blank line between the texts of successive
\* paragraphs and with no line holding text of two paragraphs, in "general"
\* and in a named section, at either default indentation.
C9_ParagraphsPreserved ==
  (pc = "done" /\ LastCreating(data) > 0 /\ IsParagraphs(Body(data))
     /\ ParagraphsDiffer(Body(data)))
    => LET list == Get(items, Val(current_todo.section))
       IN  \A indentation \in {1, 4} :
             KeepsParagraphs(Body(data),
                             print_item(list[Len(list)], indentation, TRUE).out)

\* how many sections main selected for display
NumSelected ==
  IF Val(args).section = All THEN Cardinality(Keys(Val(todo_items))) ELSE 1

\* C10: without -i, every item is printed with indentation 1 when one
\* section is selected or the headers are suppressed, and with 4 otherwise.
C10_DefaultIndent ==
  (Displayed /\ Val(args).indent_spaces = None)
    => \A i \in DOMAIN out :
         out[i].kind = "title"
           => out[i].indent =
                IF NumSelected = 1 \/ Val(args).no_section THEN 1 ELSE 4

\* C10 witness: no -i, headers shown, several sections, an item printed.
C10_Witness ==
  /\ Displayed
  /\ Val(args).indent_spaces = None
  /\ ~Val(args).no_section
  /\ NumSelected > 1
  /\ \E i \in DOMAIN out : out[i].kind = "title" /\ out[i].indent = 4

\* C11: a blank line read while the pending item has a description is
\* appended to that description in every section; in a named section the
\* same line is also counted (the count goes up, or the second blank line
\* resets it and the section).
C11_BlankJoinsDescription ==
  [][(ReadsLine /\ IsBlank(LineRead) /\ current_todo.title # None
        /\ current_todo.description # None)
       => /\ current_todo'.description
               = Some(Val(current_todo.description) \o <<"\n">>)
          /\ current_section # General
               => \/ nl_count' = nl_count + 1
                  \/ nl_count' = 0 /\ current_section' = General]_vars

\* C12: a description line appends its text and a newline to the pending
\* description, the first one to the empty text.
C12_DescriptionLineEndsWithNewline ==
  [][(ReadsLine /\ IsDescLine(LineRead) /\ current_todo.title # None)
       => current_todo'.description
            = Some((IF current_todo.description = None THEN <<>>
                    ELSE Val(current_todo.description))
                   \o DescText(LineRead) \o <<"\n">>)]_vars

\* C13: the model holds one item for each pending item begun, less the one
\* still pending while the loop runs; the returned model holds them all.
C13_FinalizedExactlyOnce ==
  /\ pc = "loop"
       => CountItems(items) + (IF current_todo.title # None THEN 1 ELSE 0)
            = Cardinality(Creating(data))
  /\ pc = "done" => CountItems(items) = Cardinality(Creating(data))

\* C13 witness: a model returned with three items, one of them finalized by
\* the end of the input.
C13_Witness ==
  /\ pc = "done"
  /\ Cardinality(Creating(data)) = 3
  /\ CountItems(items) = 3

\* C14: a title line with the title of the pending item changes neither
\* the pending item nor the model, whatever its marker and whatever the
\* current section.
C14_SameTitleIsNoOp ==
  [][(ReadsLine /\ IsTitleLine(LineRead)
        /\ current_todo.title = Some(TitleText(LineRead)))
       => /\ current_todo' = current_todo
          /\ items' = items]_vars

\* C14 witness: the last line read repeats the pending title with another
\* marker, in another section than the one the pending item recorded.
C14_Witness ==
  /\ pc = "loop"
  /\ Len(data) >= 3
  /\ IsTitleLine(data[Len(data)])
  /\ current_todo.title = Some(TitleText(data[Len(data)]))
  /\ current_todo.status # Some(TitleDone(data[Len(data)]))
  /\ current_todo.section # Some(current_section)
  /\ LastCreating(data) < Len(data)

\* a line of none of the four kinds
IsOtherLine(line) ==
  /\ ~IsHeader(line)
  /\ search[line].title = None
  /\ search[line].description = None
  /\ ~IsBlank(line)

\* C16: a line that is neither header, title, description nor blank leaves
\* the current section, the count of blank lines, the pending item and the
\* model as they were.
C16_OtherLineChangesNothing ==
  [][(ReadsLine /\ IsOtherLine(LineRead))
       => UNCHANGED <<current_section, nl_count, current_todo, items>>]_vars

\* C16 witness: such a line was read in a named section after one counted
\* blank line, with an item pending that has a description.
C16_Witness ==
  /\ pc = "loop"
  /\ Len(data) >= 1
  /\ IsOtherLine(data[Len(data)])
  /\ current_section # General
  /\ nl_count = 1
  /\ current_todo.description # None

\* the title lines that began an item, as (title, status), in file order
RECURSIVE Begun(_, _)
Begun(d, i) ==
  IF i > Len(d) THEN <<>>
  ELSE (IF i \in Creating(d)
        THEN <<[title |-> TitleText(d[i]), status |-> TitleDone(d[i])]>>
        ELSE <<>>) \o Begun(d, i + 1)
\* t is an interleaving of the lists: each list is t restricted to some of
\* its positions, in the order of t
RECURSIVE IsMerge(_, _)
IsMerge(t, lists) ==
  IF t = <<>> THEN \A i \in DOMAIN lists : lists[i] = <<>>
  ELSE \E i \in DOMAIN lists :
         /\ lists[i] # <<>>
         /\ Head(lists[i]).title = Head(t).title
         /\ Head(lists[i]).status = Head(t).status
         /\ IsMerge(Tail(t), [lists EXCEPT ![i] = Tail(@)])

\* C17: in the returned model every section lists its items in the order
\* of their title lines: the lists together are the title lines that began
\* an item, each list in file order.
C17_ItemsInFileOrder ==
  pc = "done"
    => IsMerge(Begun(data, 1), [i \in DOMAIN items |-> items[i].val])

\* C17 witness: a returned model with two items in one section and an item
\* in another.
C17_Witness ==
  /\ pc = "done"
  /\ \E i \in DOMAIN items : Len(items[i].val) >= 2
  /\ Cardinality({i \in DOMAIN items : items[i].val # <<>>}) >= 2

\* C18: with -i N every item is printed with indentation N, whatever the
\* other options.
C18_ExplicitIndent ==
  (Displayed /\ Val(args).indent_spaces # None)
    => \A i \in DOMAIN out :
         out[i].kind = "title" => out[i].indent = Val(Val(args).indent_spaces)

\* the file was not found and the answer to the prompt was not yes
Declined ==
  /\ pc \in {"exit", "raised"}
  /\ out # <<>>
  /\ out[1].kind = "File not found. Edit it? (y/N)"
  /\ \A i \in DOMAIN out : out[i].kind # "run editor"

\* C19: after a declined prompt the program ends without an exception and
\* with nothing printed but the prompt.
C19_DeclinedEndsQuietly ==
  Declined => (pc = "exit" /\ exc = "none" /\ Len(out) = 1)

\* C15: whatever lines are read, also a description line or a blank line
\* while the list of the current section is empty, no exception leaves the
\* parse_file of todo.py: it is reading lines or it has returned.
C15_TodoNeverRaises == exc = "none" /\ pc \in {"todo_loop", "todo_done"}

====
